---- MODULE Spec2Model ----
(***************************************************************************)
(* Model of the two services of the repository.                            *)
(*                                                                         *)
(*   src/auto-dispatch/server.js  POST /dispatch/run: scan approved+pending*)
(*       bookings and available riders, then one Firestore transaction per *)
(*       booking that re-reads booking and rider and assigns the nearest   *)
(*       in-radius rider.                                                  *)
(*   src/server.js                POST /paymongo/webhook: verify, parse,   *)
(*       correlate the event to an order, read the order, merge-write the  *)
(*       payment transition.                                               *)
(*                                                                         *)
(* The document store is modelled as two collections of documents whose    *)
(* single reads, queries and writes are atomic steps.  db.runTransaction   *)
(* is modelled as the store's serializable transaction: the callback's     *)
(* reads are steps of their own, its writes are buffered, and the commit   *)
(* applies them only if no document it read has changed since; otherwise   *)
(* the attempt is aborted and the callback is executed again.              *)
(***************************************************************************)
EXTENDS Integers, Sequences, FiniteSets, TLC

Null == "null"

(***************************************************************************)
(* Bounds of the model.                                                    *)
(***************************************************************************)
NumCycles == 2
MaxDeliveries == 3
MaxQrCalls == 2

Cycles == 1..NumCycles

BookingIds == <<"b1", "b2">>
RiderIds == <<"r1", "r2">>

RECURSIVE SeqRange(_)
SeqRange(s) == IF s = <<>> THEN {} ELSE {Head(s)} \cup SeqRange(Tail(s))

Bookings == SeqRange(BookingIds)
Riders == SeqRange(RiderIds)

DISPATCH_RADIUS_KM == 10

VARIABLES
    clock,      \* the store's server time (FieldValue.serverTimestamp())
    bookings,   \* collection "bookings": id -> document
    riders,     \* collection "riders": id -> document
    cpc,        \* position of each dispatch cycle in the handler
    bookingsSnap, \* per cycle: the scanned bookings, in scan order
    ridersSnap, \* per cycle: the riders kept from the scan, in scan order
    idx,        \* per cycle: position of the for loop in bookingsSnap
    assigned,   \* per cycle: the handler's local counter
    chosen,     \* per cycle: candidates[0] of the current booking
    latestBooking, \* per cycle: the booking read by the running transaction
    riderData,  \* per cycle: the rider read by the running transaction
    dres,       \* per cycle: the HTTP response sent (status 0: none yet)
    committed,  \* per cycle: the bookings its committed transactions assigned
    orders,     \* collection "orders": id -> document
    wpc,        \* position of each webhook delivery in the handler
    wreq,       \* per delivery: the request (raw body, signature header)
    orderId,    \* per delivery: the handler's local orderId
    wres,       \* per delivery: the HTTP response sent (status 0: none yet)
    qr          \* per create-qr call: its position, order, intent and response

dvars == <<bookings, riders, cpc, bookingsSnap, ridersSnap, idx, assigned,
           chosen, latestBooking, riderData, dres, committed>>

wvars == <<orders, wpc, wreq, orderId, wres, qr>>

vars == <<clock, dvars, wvars>>

Abs(x) == IF x < 0 THEN -x ELSE x

(***************************************************************************)
(* haversineKm.  Coordinates of the model are points of one meridian,      *)
(* given by their distance in whole km from a reference point; for such    *)
(* points the great-circle distance 2R asin(sqrt(sin^2(dLat/2))) is R*dLat,*)
(* the difference of the two positions.                                    *)
(***************************************************************************)
haversineKm(p, q) == Abs(q - p)

\* A coordinate pair is <<km>> when its lat and lng are numbers, and <<>> when
\* the field is missing or malformed (typeof ... !== "number").
IsNumber(x) == Len(x) = 1

\* riders.filter(...): the riders with a well-formed currentLocation
RECURSIVE WellLocated(_, _)
WellLocated(ids, rs) ==
    IF ids = <<>> THEN <<>>
    ELSE IF IsNumber(rs[Head(ids)].currentLocation)
         THEN <<[id |-> Head(ids),
                 currentLocation |-> rs[Head(ids)].currentLocation[1]]>>
                  \o WellLocated(Tail(ids), rs)
         ELSE WellLocated(Tail(ids), rs)

\* where("riderStatus", "==", "available"), in document-id order
RECURSIVE AvailableRiders(_, _)
AvailableRiders(ids, rs) ==
    IF ids = <<>> THEN <<>>
    ELSE IF rs[Head(ids)].riderStatus = "available"
         THEN <<Head(ids)>> \o AvailableRiders(Tail(ids), rs)
         ELSE AvailableRiders(Tail(ids), rs)

\* where adminStatus == approved, dispatchStatus == pending, in id order;
\* each element is a snapshot of the document (its id and data())
RECURSIVE PendingApproved(_, _)
PendingApproved(ids, bs) ==
    IF ids = <<>> THEN <<>>
    ELSE IF bs[Head(ids)].adminStatus = "approved"
              /\ bs[Head(ids)].dispatchStatus = "pending"
         THEN <<[id |-> Head(ids), pickup |-> bs[Head(ids)].pickup]>>
                  \o PendingApproved(Tail(ids), bs)
         ELSE PendingApproved(Tail(ids), bs)

\* .map(distanceKm).filter(c => c.distanceKm <= DISPATCH_RADIUS_KM)
RECURSIVE InRadius(_, _)
InRadius(pickup, rs) ==
    IF rs = <<>> THEN <<>>
    ELSE LET d == haversineKm(pickup, Head(rs).currentLocation)
         IN  IF d <= DISPATCH_RADIUS_KM
             THEN <<[riderId |-> Head(rs).id, distanceKm |-> d]>>
                      \o InRadius(pickup, Tail(rs))
             ELSE InRadius(pickup, Tail(rs))

\* .sort((a, b) => a.distanceKm - b.distanceKm): Array.prototype.sort is
\* stable, so equal distances keep their scan order (insertion sort).
InsertByDistance_Unstable(c, s) ==
    IF s = <<>> THEN <<c>>
    ELSE IF c.distanceKm <= Head(s).distanceKm
         THEN <<c>> \o s
         ELSE <<Head(s)>> \o s

RECURSIVE InsertByDistance(_, _)
InsertByDistance(c, s) ==
    IF s = <<>> THEN <<c>>
    ELSE IF c.distanceKm < Head(s).distanceKm
         THEN <<c>> \o s
         ELSE <<Head(s)>> \o InsertByDistance(c, Tail(s))

RECURSIVE SortByDistance(_)
SortByDistance(s) ==
    IF s = <<>> THEN <<>>
    ELSE LET sortedInit == SortByDistance(SubSeq(s, 1, Len(s) - 1))
         IN  InsertByDistance(s[Len(s)], sortedInit)

candidates(pickup, rs) == SortByDistance(InRadius(pickup, rs))

\* the re-check of the booking inside the transaction
BookingStillOpen_NoCheck(b) == TRUE

\* the re-check without adminStatus
BookingStillOpen_DispatchOnly(b) == b.dispatchStatus = "pending"

BookingStillOpen(b) ==
    b.adminStatus = "approved" /\ b.dispatchStatus = "pending"

\* the re-check of the rider inside the transaction
RiderStillAvailable_NoCheck(r) == TRUE

RiderStillAvailable(r) == r.riderStatus = "available"


NoResponse == [status |-> 0, scanned |-> 0, assigned |-> 0]
NoBooking == [adminStatus |-> Null, dispatchStatus |-> Null, pickup |-> <<>>,
              riderId |-> Null, status |-> Null, matchedAt |-> 0, updatedAt |-> 0]
NoRider == [riderStatus |-> Null, currentLocation |-> <<>>, updatedAt |-> 0]

\* b1 is approved, pending and picked up at km 0; b2 varies.
BookingDocs(a2, p2) ==
    [b \in Bookings |->
        [adminStatus |-> IF b = "b1" THEN "approved" ELSE a2,
         dispatchStatus |-> "pending",
         pickup |-> IF b = "b1" THEN <<0>> ELSE p2,
         riderId |-> Null, status |-> "created",
         matchedAt |-> 0, updatedAt |-> 0]]

\* r1 is at km 1; r2 is available, and missing, at the same distance from
\* b1, farther, or out of b1's radius and on the edge of b2's.
RiderDocs(s1, l2) ==
    [r \in Riders |->
        [riderStatus |-> IF r = "r1" THEN s1 ELSE "available",
         currentLocation |-> IF r = "r1" THEN <<1>> ELSE l2,
         updatedAt |-> 0]]

InitBookings ==
    { BookingDocs(a2, p2) : a2 \in {"approved", "pending"}, p2 \in {<<>>, <<2>>} }

InitRiders ==
    { RiderDocs(s1, l2) :
        s1 \in {"available", "busy"}, l2 \in {<<>>, <<1>>, <<3>>, <<12>>} }

DispatchLocalsInit ==
    /\ cpc = [c \in Cycles |-> "idle"]
    /\ bookingsSnap = [c \in Cycles |-> <<>>]
    /\ ridersSnap = [c \in Cycles |-> <<>>]
    /\ idx = [c \in Cycles |-> 0]
    /\ assigned = [c \in Cycles |-> 0]
    /\ chosen = [c \in Cycles |-> Null]
    /\ latestBooking = [c \in Cycles |-> NoBooking]
    /\ riderData = [c \in Cycles |-> NoRider]
    /\ dres = [c \in Cycles |-> NoResponse]
    /\ committed = [c \in Cycles |-> {}]

cycleLocals == <<bookingsSnap, ridersSnap, idx, assigned, chosen,
                 latestBooking, riderData, committed>>
txLocals == <<latestBooking, riderData>>

\* return res.status(401): the shared secret is missing or wrong
Unauthorized(c) ==
    /\ cpc[c] = "idle"
    /\ cpc' = [cpc EXCEPT ![c] = "done"]
    /\ dres' = [dres EXCEPT ![c] = [status |-> 401, scanned |-> 0, assigned |-> 0]]
    /\ UNCHANGED <<clock, bookings, riders, cycleLocals, wvars>>

\* bookingsSnap = await db.collection("bookings").where(...).where(...).get()
ScanBookings(c) ==
    /\ cpc[c] = "idle"
    /\ LET snap == PendingApproved(BookingIds, bookings)
       IN  /\ bookingsSnap' = [bookingsSnap EXCEPT ![c] = snap]
           /\ IF snap = <<>>
              THEN /\ cpc' = [cpc EXCEPT ![c] = "done"]
                   /\ dres' = [dres EXCEPT ![c] =
                          [status |-> 200, scanned |-> 0, assigned |-> 0]]
              ELSE /\ cpc' = [cpc EXCEPT ![c] = "scanRiders"]
                   /\ UNCHANGED dres
    /\ UNCHANGED <<clock, bookings, riders, ridersSnap, idx, assigned, chosen,
                   txLocals,
                   committed, wvars>>

\* ridersSnap = await db.collection("riders").where(...).get(); riders = ...
ScanRiders(c) ==
    /\ cpc[c] = "scanRiders"
    /\ ridersSnap' = [ridersSnap EXCEPT ![c] =
           WellLocated(AvailableRiders(RiderIds, riders), riders)]
    /\ assigned' = [assigned EXCEPT ![c] = 0]
    /\ idx' = [idx EXCEPT ![c] = 1]
    /\ cpc' = [cpc EXCEPT ![c] = "loop"]
    /\ UNCHANGED <<clock, bookings, riders, bookingsSnap, chosen, txLocals, dres,
                   committed, wvars>>

\* One turn of "for (const bookingDoc of bookingsSnap.docs)" up to the call
\* of db.runTransaction, or the response after the last booking.
LoopStep(c) ==
    /\ cpc[c] = "loop"
    /\ IF idx[c] > Len(bookingsSnap[c])
       THEN /\ cpc' = [cpc EXCEPT ![c] = "done"]
            /\ dres' = [dres EXCEPT ![c] =
                   [status |-> 200, scanned |-> Len(bookingsSnap[c]),
                    assigned |-> assigned[c]]]
            /\ UNCHANGED <<idx, chosen>>
       ELSE LET booking == bookingsSnap[c][idx[c]]
            IN  IF ~IsNumber(booking.pickup)
                THEN /\ idx' = [idx EXCEPT ![c] = @ + 1]
                     /\ UNCHANGED <<cpc, chosen, dres>>
                ELSE LET cand == candidates(booking.pickup[1], ridersSnap[c])
                     IN  IF cand = <<>>
                         THEN /\ idx' = [idx EXCEPT ![c] = @ + 1]
                              /\ UNCHANGED <<cpc, chosen, dres>>
                         ELSE /\ chosen' = [chosen EXCEPT ![c] = cand[1].riderId]
                              /\ cpc' = [cpc EXCEPT ![c] = "txGetBooking"]
                              /\ UNCHANGED <<idx, dres>>
    /\ UNCHANGED <<clock, bookings, riders, bookingsSnap, ridersSnap, assigned,
                   txLocals,
                   committed, wvars>>

bookingRefId(c) == bookingsSnap[c][idx[c]].id

\* the booking is tried again after a failed re-check
TxReturnEmpty_SameBooking(c) ==
    /\ cpc' = [cpc EXCEPT ![c] = "loop"]
    /\ idx' = idx

\* The transaction's callback returned without writes: the empty transaction
\* commits and the loop goes on to the next booking.
TxReturnEmpty(c) ==
    /\ cpc' = [cpc EXCEPT ![c] = "loop"]
    /\ idx' = [idx EXCEPT ![c] = @ + 1]

\* latestBookingSnap = await tx.get(bookingDoc.ref), and the re-check
TxGetBooking(c) ==
    /\ cpc[c] = "txGetBooking"
    /\ LET b == bookings[bookingRefId(c)]
       IN  /\ latestBooking' = [latestBooking EXCEPT ![c] = b]
           /\ IF BookingStillOpen(b)
              THEN /\ cpc' = [cpc EXCEPT ![c] = "txGetRider"]
                   /\ UNCHANGED idx
              ELSE TxReturnEmpty(c)
    /\ UNCHANGED <<clock, bookings, riders, bookingsSnap, ridersSnap, assigned,
                   chosen, riderData, dres,
                   committed, wvars>>

\* riderSnap = await tx.get(riderRef), the re-check, the two buffered
\* tx.update calls and assigned++ (all inside the callback)
TxGetRider(c) ==
    /\ cpc[c] = "txGetRider"
    /\ LET r == riders[chosen[c]]
       IN  /\ riderData' = [riderData EXCEPT ![c] = r]
           /\ IF RiderStillAvailable(r)
              THEN /\ assigned' = [assigned EXCEPT ![c] = @ + 1]
                   /\ cpc' = [cpc EXCEPT ![c] = "txCommit"]
                   /\ UNCHANGED idx
              ELSE /\ TxReturnEmpty(c)
                   /\ UNCHANGED assigned
    /\ UNCHANGED <<clock, bookings, riders, bookingsSnap, ridersSnap, chosen,
                   latestBooking, dres,
                   committed, wvars>>

\* The store's commit-time validation: no document the transaction read has
\* been changed by another writer since it was read.
TxReadsUnchanged(c) ==
    /\ bookings[bookingRefId(c)] = latestBooking[c]
    /\ riders[chosen[c]] = riderData[c]

\* the booking's update applied without the rider's
TxCommit_BookingOnly(c) ==
    /\ cpc[c] = "txCommit"
    /\ TxReadsUnchanged(c)
    /\ clock' = clock + 1
    /\ bookings' = [bookings EXCEPT ![bookingRefId(c)] =
           [@ EXCEPT !.riderId = chosen[c],
                     !.dispatchStatus = "assigned",
                     !.status = "matched",
                     !.matchedAt = clock',
                     !.updatedAt = clock']]
    /\ cpc' = [cpc EXCEPT ![c] = "loop"]
    /\ idx' = [idx EXCEPT ![c] = @ + 1]
    /\ committed' = [committed EXCEPT ![c] = @ \cup {bookingRefId(c)}]
    /\ UNCHANGED <<riders, bookingsSnap, ridersSnap, assigned, chosen, txLocals,
                   dres, wvars>>

\* The commit of the two buffered updates, both or none.
TxCommit(c) ==
    /\ cpc[c] = "txCommit"
    /\ TxReadsUnchanged(c)
    /\ clock' = clock + 1
    /\ bookings' = [bookings EXCEPT ![bookingRefId(c)] =
           [@ EXCEPT !.riderId = chosen[c],
                     !.dispatchStatus = "assigned",
                     !.status = "matched",
                     !.matchedAt = clock',
                     !.updatedAt = clock']]
    /\ riders' = [riders EXCEPT ![chosen[c]] =
           [@ EXCEPT !.riderStatus = "busy", !.updatedAt = clock']]
    /\ cpc' = [cpc EXCEPT ![c] = "loop"]
    /\ idx' = [idx EXCEPT ![c] = @ + 1]
    /\ committed' = [committed EXCEPT ![c] = @ \cup {bookingRefId(c)}]
    /\ UNCHANGED <<bookingsSnap, ridersSnap, assigned, chosen, txLocals, dres,
                   wvars>>

\* The commit is refused because a document read by the callback was written
\* meanwhile: runTransaction executes the callback again.
TxRetry(c) ==
    /\ cpc[c] = "txCommit"
    /\ ~TxReadsUnchanged(c)
    /\ cpc' = [cpc EXCEPT ![c] = "txGetBooking"]
    /\ UNCHANGED <<clock, bookings, riders, cycleLocals, dres,
                   wvars>>

\* catch (err): a store read of the scan, or runTransaction, rejected
DispatchFailed(c) ==
    /\ cpc' = [cpc EXCEPT ![c] = "done"]
    /\ dres' = [dres EXCEPT ![c] = [status |-> 500, scanned |-> 0, assigned |-> 0]]
    /\ UNCHANGED <<clock, bookings, riders, cycleLocals, wvars>>

\* One of the two scans rejects.
ScanError(c) ==
    /\ cpc[c] \in {"idle", "scanRiders"}
    /\ DispatchFailed(c)

\* runTransaction rejects (store error, or contention it gave up on); nothing
\* of the transaction is applied.
TxError(c) ==
    /\ cpc[c] \in {"txGetBooking", "txGetRider", "txCommit"}
    /\ DispatchFailed(c)

\* Another actor (the admin console) rejects a booking not yet dispatched.
AdminReject(b) ==
    /\ bookings[b].adminStatus = "approved"
    /\ bookings[b].dispatchStatus = "pending"
    /\ clock' = clock + 1
    /\ bookings' = [bookings EXCEPT ![b] =
           [@ EXCEPT !.adminStatus = "rejected", !.updatedAt = clock']]
    /\ UNCHANGED <<riders, cpc, cycleLocals, dres,
                   wvars>>

DispatchInit ==
    /\ bookings \in InitBookings
    /\ riders \in InitRiders
    /\ DispatchLocalsInit

DispatchNext ==
    \/ \E c \in Cycles :
          \/ Unauthorized(c)
          \/ ScanBookings(c)
          \/ ScanRiders(c)
          \/ LoopStep(c)
          \/ TxGetBooking(c)
          \/ TxGetRider(c)
          \/ TxCommit(c)
          \/ TxRetry(c)
          \/ ScanError(c)
          \/ TxError(c)
    \/ \E b \in Bookings : AdminReject(b)

\* A single dispatch cycle, alone with the admin.
DispatchOneNext ==
    \/ Unauthorized(1)
    \/ ScanBookings(1)
    \/ ScanRiders(1)
    \/ LoopStep(1)
    \/ TxGetBooking(1)
    \/ TxGetRider(1)
    \/ TxCommit(1)
    \/ TxRetry(1)
    \/ ScanError(1)
    \/ TxError(1)
    \/ \E b \in Bookings : AdminReject(b)


(***************************************************************************)
(* src/server.js: the payment webhook.                                     *)
(***************************************************************************)
Deliveries == 1..MaxDeliveries

OrderIds == <<"o1", "o2">>
Orders == SeqRange(OrderIds)

PAYMONGO_MODE == "test"
PAYMONGO_WEBHOOK_SECRET == "whsec"

\* crypto.createHmac("sha256", key).update(payload).digest("hex"), idealised
\* as an injective function of the key and the payload
Hmac(key, payload) == [key |-> key, payload |-> payload]

\* `${timestamp}.${rawBody}`
signedPayload(timestamp, rawBody) == <<timestamp, rawBody>>

\* The text of a timestamp: Number(text) is n when the text is a decimal
\* number and NaN (not finite) otherwise.
Stamp(n) == [finite |-> TRUE, n |-> n]
NotANumber == [finite |-> FALSE, n |-> 0]

\* A signature header is a record of the key=value pairs it parses to:
\* present (the header was sent), t, te, li, each <<>> when the pair is
\* missing and <<value>> otherwise.
verifyWebhookSignature_NoFreshness(rawBody, signatureHeader, now) ==
    IF ~signatureHeader.present THEN FALSE
    ELSE LET timestamp == signatureHeader.t
             signature == IF PAYMONGO_MODE = "live"
                          THEN signatureHeader.li ELSE signatureHeader.te
         IN  IF timestamp = <<>> \/ signature = <<>> THEN FALSE
             ELSE signature[1] = Hmac(PAYMONGO_WEBHOOK_SECRET,
                                      signedPayload(timestamp[1], rawBody))

\* Math.abs(now - ts) >= 300 in place of > 300
verifyWebhookSignature_Exclusive(rawBody, signatureHeader, now) ==
    IF ~signatureHeader.present THEN FALSE
    ELSE LET timestamp == signatureHeader.t
             signature == IF PAYMONGO_MODE = "live"
                          THEN signatureHeader.li ELSE signatureHeader.te
         IN  IF timestamp = <<>> \/ signature = <<>> THEN FALSE
             ELSE IF ~timestamp[1].finite THEN FALSE
             ELSE IF Abs(now - timestamp[1].n) >= 300 THEN FALSE
             ELSE signature[1] = Hmac(PAYMONGO_WEBHOOK_SECRET,
                                      signedPayload(timestamp[1], rawBody))

\* the signature computed over the timestamp alone, not over the raw body
verifyWebhookSignature_NoBody(rawBody, signatureHeader, now) ==
    IF ~signatureHeader.present THEN FALSE
    ELSE LET timestamp == signatureHeader.t
             signature == IF PAYMONGO_MODE = "live"
                          THEN signatureHeader.li ELSE signatureHeader.te
         IN  IF timestamp = <<>> \/ signature = <<>> THEN FALSE
             ELSE IF ~timestamp[1].finite THEN FALSE
             ELSE IF Abs(now - timestamp[1].n) > 300 THEN FALSE
             ELSE /\ signature[1].key = PAYMONGO_WEBHOOK_SECRET
                  /\ signature[1].payload[1] = timestamp[1]

verifyWebhookSignature(rawBody, signatureHeader, now) ==
    IF ~signatureHeader.present THEN FALSE
    ELSE LET timestamp == signatureHeader.t
             signature == IF PAYMONGO_MODE = "live"
                          THEN signatureHeader.li ELSE signatureHeader.te
         IN  IF timestamp = <<>> \/ signature = <<>> THEN FALSE
             ELSE IF ~timestamp[1].finite THEN FALSE
             ELSE IF Abs(now - timestamp[1].n) > 300 THEN FALSE
             ELSE signature[1] = Hmac(PAYMONGO_WEBHOOK_SECRET,
                                      signedPayload(timestamp[1], rawBody))

\* Raw bodies.  json says whether JSON.parse accepts the text; the other
\* fields are what the handler extracts from the parsed event: type is
\* data.attributes.type, orderId is metadata.orderId || metadata.order_id,
\* paymentIntentId the first of the three places it is looked for, id is
\* data.attributes.data.id.  Null stands for an absent (undefined) value.
Body(type, oid, pi, id) ==
    [json |-> TRUE, type |-> type, orderId |-> oid, paymentIntentId |-> pi,
     id |-> id]

Garbage == [json |-> FALSE, type |-> Null, orderId |-> Null,
            paymentIntentId |-> Null, id |-> Null]

PaidO1 == Body("payment.paid", "o1", "pi1", "pay1")
FailedO1 == Body("payment.failed", "o1", "pi1", "pay2")
ExpiredO1 == Body("qrph.expired", "o1", "pi1", Null)

EventBodies ==
    { PaidO1, FailedO1, ExpiredO1,
      Body("payment.refunded", "o1", "pi1", "pay1"),   \* unrecognized type
      Body("payment.paid", Null, "pi1", "pay1"),       \* found by intent id
      Body("payment.paid", "o9", "pi1", "pay1"),       \* no such order
      Body("payment.paid", Null, "pi9", "pay1"),       \* no such intent
      Body("payment.paid", Null, Null, "pay1"),        \* nothing to go by
      Body("payment.failed", "o1", Null, "pay2"),      \* no intent id
      Body("payment.paid", "o1", "pi7", "pay3") }      \* another intent id

Header(t, key, body) ==
    [present |-> TRUE, t |-> <<Stamp(t)>>,
     te |-> <<Hmac(key, signedPayload(Stamp(t), body))>>, li |-> <<>>]

NoHeader == [present |-> FALSE, t |-> <<>>, te |-> <<>>, li |-> <<>>]

Signed(body) == [body |-> body, header |-> Header(0, PAYMONGO_WEBHOOK_SECRET, body)]

Requests ==
    { Signed(b) : b \in EventBodies \cup {Garbage} }
    \cup { [body |-> PaidO1, header |-> NoHeader],
           \* signed 301 s ago
           [body |-> PaidO1, header |-> Header(-301, PAYMONGO_WEBHOOK_SECRET, PaidO1)],
           \* the signature of another body
           [body |-> PaidO1, header |-> Header(0, PAYMONGO_WEBHOOK_SECRET, FailedO1)],
           \* signed with another key
           [body |-> PaidO1, header |-> Header(0, "guess", PaidO1)],
           \* a live-mode signature only
           [body |-> PaidO1,
            header |-> [present |-> TRUE, t |-> <<Stamp(0)>>, te |-> <<>>,
                        li |-> <<Hmac(PAYMONGO_WEBHOOK_SECRET,
                                      signedPayload(Stamp(0), PaidO1))>>]] }

NoRequest == [body |-> Garbage, header |-> NoHeader]

\* Requests about the signature check: signed 299, 300 and 301 s in the
\* past and in the future, and headers that are malformed or do not belong
\* to the body.
StampedAt(t, body) == [body |-> body, header |-> Header(t, PAYMONGO_WEBHOOK_SECRET, body)]

IntentPaid == Body("payment.paid", Null, "pi1", "pay1")

VerifyRequests ==
    { StampedAt(t, PaidO1) : t \in {-301, -300, -299, 0, 299, 300, 301, 302} }
    \cup { Signed(IntentPaid),
           [body |-> PaidO1, header |-> NoHeader],
           \* the signature of another body
           [body |-> PaidO1, header |-> Header(0, PAYMONGO_WEBHOOK_SECRET, FailedO1)],
           \* signed with another key
           [body |-> PaidO1, header |-> Header(0, "guess", PaidO1)],
           \* no t= pair
           [body |-> PaidO1,
            header |-> [present |-> TRUE, t |-> <<>>,
                        te |-> <<Hmac(PAYMONGO_WEBHOOK_SECRET,
                                      signedPayload(Stamp(0), PaidO1))>>,
                        li |-> <<>>]],
           \* no te= pair
           [body |-> PaidO1,
            header |-> [present |-> TRUE, t |-> <<Stamp(0)>>, te |-> <<>>,
                        li |-> <<>>]],
           \* t= is not a number, the signature is over that text
           [body |-> PaidO1,
            header |-> [present |-> TRUE, t |-> <<NotANumber>>,
                        te |-> <<Hmac(PAYMONGO_WEBHOOK_SECRET,
                                      signedPayload(NotANumber, PaidO1))>>,
                        li |-> <<>>]] }

NoWebhookResponse == [status |-> 0, body |-> Null]
Received == [status |-> 200, body |-> "received"]
InvalidSignature == [status |-> 400, body |-> "Invalid signature"]
InvalidPayload == [status |-> 400, body |-> "Invalid payload"]
InternalError == [status |-> 500, body |-> "error"]

\* An order document: the fields the payment service reads (totalAmount,
\* customerId) and the fields it writes.  An order whose payment was
\* initiated carries what create-qr wrote.
OrderDoc(paymentStatus, pi) ==
    [totalAmount |-> 500, customerId |-> "u1",
     paymentStatus |-> paymentStatus, status |-> "created", paidAt |-> 0,
     paymentMethod |-> IF pi = Null THEN Null ELSE "online",
     paymentProvider |-> IF pi = Null THEN Null ELSE "paymongo",
     paymentProviderMode |-> IF pi = Null THEN Null ELSE PAYMONGO_MODE,
     paymentIntentId |-> pi,
     paymentMethodId |-> IF pi = Null THEN Null ELSE "pm0",
     paymentReference |-> Null, updatedAt |-> 0]

\* o1 before or after its payment was initiated; o2 initiated.
InitOrders ==
    { [o \in Orders |-> IF o = "o1" THEN d ELSE OrderDoc("pending", "pi2")]
      : d \in {OrderDoc(Null, Null), OrderDoc("pending", "pi1")} }

QrCalls == 1..MaxQrCalls

NoQrCall == [pc |-> "idle", orderId |-> Null, intentId |-> Null, status |-> 0]

WebhookLocalsInit ==
    /\ wpc = [h \in Deliveries |-> "idle"]
    /\ wreq = [h \in Deliveries |-> NoRequest]
    /\ orderId = [h \in Deliveries |-> Null]
    /\ wres = [h \in Deliveries |-> NoWebhookResponse]
    /\ qr = [k \in QrCalls |-> NoQrCall]

\* res.status(...).json(...): the handler returns
Respond(h, response) ==
    /\ wpc' = [wpc EXCEPT ![h] = "done"]
    /\ wres' = [wres EXCEPT ![h] = response]

\* the query without its where clause: the first order, whatever its intent
FirstWithIntent_AnyOrder(ids, os, pi) == <<Head(ids)>>

\* where("paymentIntentId", "==", pi).limit(1): the first match in id order
RECURSIVE FirstWithIntent(_, _, _)
FirstWithIntent(ids, os, pi) ==
    IF ids = <<>> THEN <<>>
    ELSE IF os[Head(ids)].paymentIntentId = pi THEN <<Head(ids)>>
    ELSE FirstWithIntent(Tail(ids), os, pi)

\* The handler up to its first store call: verification, JSON.parse and the
\* extraction of the event's fields.  Deliveries are numbered as they arrive.
WhReceive(h, req) ==
    /\ wpc[h] = "idle"
    /\ IF h = 1 THEN TRUE ELSE wpc[h - 1] # "idle"
    /\ wreq' = [wreq EXCEPT ![h] = req]
    /\ IF ~verifyWebhookSignature(req.body, req.header, clock)
       THEN Respond(h, InvalidSignature) /\ UNCHANGED orderId
       ELSE IF ~req.body.json
       THEN Respond(h, InvalidPayload) /\ UNCHANGED orderId
       ELSE /\ orderId' = [orderId EXCEPT ![h] = req.body.orderId]
            /\ IF req.body.orderId = Null /\ req.body.paymentIntentId # Null
               THEN wpc' = [wpc EXCEPT ![h] = "query"] /\ UNCHANGED wres
               ELSE IF req.body.orderId = Null
               THEN Respond(h, Received)
               ELSE wpc' = [wpc EXCEPT ![h] = "get"] /\ UNCHANGED wres
    /\ UNCHANGED <<clock, orders, qr, dvars>>

\* The lookup of the order by payment-intent id.
WhQuery(h) ==
    /\ wpc[h] = "query"
    /\ LET snap == FirstWithIntent(OrderIds, orders, wreq[h].body.paymentIntentId)
       IN  IF snap # <<>>
           THEN /\ orderId' = [orderId EXCEPT ![h] = snap[1]]
                /\ wpc' = [wpc EXCEPT ![h] = "get"]
                /\ UNCHANGED wres
           ELSE Respond(h, Received) /\ UNCHANGED orderId
    /\ UNCHANGED <<clock, orders, wreq, qr, dvars>>

\* orderData.paymentStatus === "paid" || orderData.status === "paid"
AlreadyPaid_Never(orderData) == FALSE

AlreadyPaid_AnyOutcome(orderData) ==
    orderData.paymentStatus \in {"paid", "failed", "expired"}

AlreadyPaid(orderData) ==
    orderData.paymentStatus = "paid" \/ orderData.status = "paid"

Transitions == {"payment.paid", "payment.failed", "qrph.expired"}

\* orderSnap = await orderRef.get(), the guards, and the choice of the write
WhGet(h) ==
    /\ wpc[h] = "get"
    /\ IF orderId[h] \notin DOMAIN orders
       THEN Respond(h, Received)
       ELSE IF AlreadyPaid(orders[orderId[h]])
       THEN Respond(h, Received)
       ELSE IF wreq[h].body.type \in Transitions
       THEN wpc' = [wpc EXCEPT ![h] = "set"] /\ UNCHANGED wres
       ELSE Respond(h, Received)
    /\ UNCHANGED <<clock, orders, wreq, orderId, qr, dvars>>

\* orderRef.set without {merge: true}: the document is replaced
PaidWrite_NoMerge(doc, event, now) ==
    [f \in DOMAIN doc |->
        CASE f = "paymentStatus" -> "paid"
          [] f = "status" -> "paid"
          [] f = "paidAt" -> now
          [] f = "paymentProvider" -> "paymongo"
          [] f = "paymentIntentId" -> event.paymentIntentId
          [] f = "paymentReference" -> event.id
          [] f = "updatedAt" -> now
          [] f = "totalAmount" -> 0
          [] OTHER -> Null]

\* The merge-write of a payment.paid event.
PaidWrite(doc, event, now) ==
    [doc EXCEPT !.paymentStatus = "paid",
                !.status = "paid",
                !.paidAt = now,
                !.paymentProvider = "paymongo",
                !.paymentIntentId = event.paymentIntentId,
                !.paymentReference = event.id,
                !.updatedAt = now]

\* The merge-write of a payment.failed or qrph.expired event.
FailedWrite(doc, event, now) ==
    [doc EXCEPT !.paymentStatus =
                    IF event.type = "qrph.expired" THEN "expired" ELSE "failed",
                !.paymentProvider = "paymongo",
                !.paymentIntentId = event.paymentIntentId,
                !.updatedAt = now]

\* await orderRef.set({...}, {merge: true}) and the response after it.  The
\* store client rejects a document holding an undefined value, so the write
\* of an event without payment-intent id can only fail.
WhSet(h) ==
    /\ wpc[h] = "set"
    /\ wreq[h].body.paymentIntentId # Null
    /\ clock' = clock + 1
    /\ orders' = [orders EXCEPT ![orderId[h]] =
           IF wreq[h].body.type = "payment.paid"
           THEN PaidWrite(@, wreq[h].body, clock')
           ELSE FailedWrite(@, wreq[h].body, clock')]
    /\ Respond(h, Received)
    /\ UNCHANGED <<wreq, orderId, qr, dvars>>

\* A store call of the handler rejects.  The handler has no try/catch: under
\* a router that does not await handlers the rejection is unhandled and no
\* response is ever sent; under one that does, its default error handler
\* answers 500.
WhStoreError(h) ==
    /\ wpc[h] \in {"query", "get", "set"}
    /\ \/ wpc' = [wpc EXCEPT ![h] = "unhandled"] /\ UNCHANGED wres
       \/ Respond(h, InternalError)
    /\ UNCHANGED <<clock, orders, wreq, orderId, qr, dvars>>

\* One delivery at a time: the next request arrives after the last response.
WhReceiveSeq(h, req) ==
    /\ \A g \in Deliveries : wpc[g] \in {"idle", "done"}
    /\ WhReceive(h, req)

WebhookNext ==
    \E h \in Deliveries :
        \/ \E req \in Requests : WhReceive(h, req)
        \/ WhQuery(h)
        \/ WhGet(h)
        \/ WhSet(h)

WebhookSeqNext ==
    \E h \in Deliveries :
        \/ \E req \in Requests : WhReceiveSeq(h, req)
        \/ WhQuery(h)
        \/ WhGet(h)
        \/ WhSet(h)

\* deliveries of the requests about the signature check
VerifyNext ==
    \E h \in Deliveries :
        \/ \E req \in VerifyRequests : WhReceive(h, req)
        \/ WhQuery(h)
        \/ WhGet(h)
        \/ WhSet(h)

WebhookFailNext ==
    \/ WebhookNext
    \/ \E h \in Deliveries : WhStoreError(h)

(***************************************************************************)
(* POST /paymongo/create-qr.                                               *)
(***************************************************************************)
QrBadRequest == 400
QrFailure == 500
QrOk == 200

\* req.body.orderId: absent, an order, or no order's id
QrOrderIds == {Null, "o1", "o9"}

\* intent.data.id: the provider makes a new payment intent for every call
NewIntentId(k) == IF k = 1 THEN "pi7" ELSE "pi8"

QrRespond(k, status) ==
    qr' = [qr EXCEPT ![k].pc = "done", ![k].status = status]

\* the body's orderId is checked
QrStart(k, oid) ==
    /\ qr[k].pc = "idle"
    /\ IF k = 1 THEN TRUE ELSE qr[k - 1].pc # "idle"
    /\ IF oid = Null
       THEN qr' = [qr EXCEPT ![k].pc = "done", ![k].status = QrBadRequest]
       ELSE qr' = [qr EXCEPT ![k].pc = "prepare", ![k].orderId = oid]
    /\ UNCHANGED <<clock, orders, wpc, wreq, orderId, wres, dvars>>

\* getOrderForPayment, the amount, the customer's email (hasEmail: the users
\* collection has one) and the provider's three calls
QrPrepare(k, hasEmail) ==
    /\ qr[k].pc = "prepare"
    /\ IF qr[k].orderId \notin Orders
       THEN QrRespond(k, QrFailure)
       ELSE IF orders[qr[k].orderId].totalAmount * 100 <= 0
       THEN QrRespond(k, QrBadRequest)
       ELSE IF ~hasEmail
       THEN QrRespond(k, QrBadRequest)
       ELSE qr' = [qr EXCEPT ![k].pc = "set", ![k].intentId = NewIntentId(k)]
    /\ UNCHANGED <<clock, orders, wpc, wreq, orderId, wres, dvars>>

\* ref.set({...}, {merge: true}) and the response
QrWrite(doc, intentId, now) ==
    [doc EXCEPT !.paymentMethod = "online",
                !.paymentStatus = "pending",
                !.paymentProvider = "paymongo",
                !.paymentProviderMode = PAYMONGO_MODE,
                !.paymentIntentId = intentId,
                !.paymentMethodId = "pm0",
                !.updatedAt = now]

QrSet(k) ==
    /\ qr[k].pc = "set"
    /\ clock' = clock + 1
    /\ orders' = [orders EXCEPT ![qr[k].orderId] =
                      QrWrite(@, qr[k].intentId, clock')]
    /\ QrRespond(k, QrOk)
    /\ UNCHANGED <<wpc, wreq, orderId, wres, dvars>>

\* a store or provider call rejects: the catch answers 500
QrFailed(k) ==
    /\ qr[k].pc \in {"prepare", "set"}
    /\ QrRespond(k, QrFailure)
    /\ UNCHANGED <<clock, orders, wpc, wreq, orderId, wres, dvars>>

\* payment initiations and the deliveries of their events
PaymentRequests ==
    { Signed(PaidO1), Signed(FailedO1), Signed(IntentPaid),
      Signed(Body("payment.failed", "o1", "pi7", "pay3")) }

PaymentNext ==
    \/ \E k \in QrCalls :
          \/ \E oid \in QrOrderIds : QrStart(k, oid)
          \/ \E hasEmail \in BOOLEAN : QrPrepare(k, hasEmail)
          \/ QrSet(k)
          \/ QrFailed(k)
    \/ \E h \in Deliveries :
          \/ \E req \in PaymentRequests : WhReceive(h, req)
          \/ WhQuery(h)
          \/ WhGet(h)
          \/ WhSet(h)

(***************************************************************************)
(* Specifications.                                                         *)
(***************************************************************************)
DispatchQuiet ==
    /\ bookings = BookingDocs("approved", <<2>>)
    /\ riders = RiderDocs("available", <<3>>)
    /\ DispatchLocalsInit

WebhookQuiet ==
    /\ orders = [o \in Orders |-> OrderDoc("pending", IF o = "o1" THEN "pi1" ELSE "pi2")]
    /\ WebhookLocalsInit

Init == clock = 0 /\ DispatchInit /\ WebhookQuiet

WebhookInit ==
    /\ clock = 0
    /\ DispatchQuiet
    /\ orders \in InitOrders
    /\ WebhookLocalsInit

\* concurrent dispatch cycles, with store errors and the admin's rejections
SpecDispatch == Init /\ [][DispatchNext]_vars

\* One dispatch cycle and webhook deliveries of a few events, interleaved;
\* no store call fails.
BothRequests ==
    { Signed(PaidO1), Signed(FailedO1),
      Signed(Body("payment.paid", Null, "pi1", "pay1")) }

BothNext ==
    \/ ScanBookings(1)
    \/ ScanRiders(1)
    \/ LoopStep(1)
    \/ TxGetBooking(1)
    \/ TxGetRider(1)
    \/ TxCommit(1)
    \/ \E h \in Deliveries :
          \/ \E req \in BothRequests : WhReceive(h, req)
          \/ WhQuery(h)
          \/ WhGet(h)
          \/ WhSet(h)

SpecBoth == WebhookInit /\ [][BothNext]_vars

SpecVerify == WebhookInit /\ [][VerifyNext]_vars

SpecPayment == WebhookInit /\ [][PaymentNext]_vars

\* one dispatch cycle, with store errors and the admin's rejections
SpecDispatchOne == Init /\ [][DispatchOneNext]_vars

\* concurrent webhook deliveries, no store call fails
SpecWebhook == WebhookInit /\ [][WebhookNext]_vars

\* webhook deliveries one after another, no store call fails
SpecWebhookSeq == WebhookInit /\ [][WebhookSeqNext]_vars

\* concurrent webhook deliveries whose store calls may fail
SpecWebhookFail == WebhookInit /\ [][WebhookFailNext]_vars

(***************************************************************************)
(* Claims about the dispatch cycle.                                        *)
(***************************************************************************)
Done(c) == cpc[c] = "done"

\* A rider that was available when the cycles started: still available, or
\* made busy since (a rider busy from the start was never written).
WasAvailable(r) ==
    riders[r].riderStatus = "available" \/ riders[r].updatedAt > 0

InRadiusOf(b, r) ==
    /\ IsNumber(bookings[b].pickup) /\ IsNumber(riders[r].currentLocation)
    /\ haversineKm(bookings[b].pickup[1], riders[r].currentLocation[1])
           <= DISPATCH_RADIUS_KM

\* The store held exactly one approved+pending booking, b1, and exactly one
\* available rider within its radius, and nobody but the cycles wrote to it.
OneBookingOneRider ==
    /\ bookings["b1"].adminStatus = "approved"
    /\ bookings["b2"].adminStatus = "pending"
    /\ Cardinality({r \in Riders : WasAvailable(r) /\ InRadiusOf("b1", r)}) = 1

\* C1: two concurrent cycles that both scanned the single pending booking,
\* with a single available in-radius rider, and both answered: exactly one
\* reports assigned = 1, the other reports scanned = 1 and assigned = 0, and
\* the rider is busy and referenced by the booking.
C1_ExactlyOneCycleReportsAssigned ==
    ( /\ OneBookingOneRider
      /\ \A c \in Cycles :
            Done(c) /\ dres[c].status = 200 /\ dres[c].scanned = 1 )
    => /\ \E c \in Cycles :
            /\ dres[c].assigned = 1
            /\ \A d \in Cycles \ {c} : dres[d].assigned = 0
       /\ bookings["b1"].dispatchStatus = "assigned"
       /\ riders[bookings["b1"].riderId].riderStatus = "busy"

\* C2: a step that sets a booking's rider picks a rider that is available
\* in the store at that very step and is the rider of no other booking; in
\* every state no rider is the rider of more than one booking.
C2_RiderAssignedAtMostOnce ==
    [][ /\ \A b \in Bookings :
              bookings'[b].riderId # bookings[b].riderId =>
                  /\ riders[bookings'[b].riderId].riderStatus = "available"
                  /\ riders'[bookings'[b].riderId].riderStatus = "busy"
        /\ \A r \in Riders :
              Cardinality({b \in Bookings : bookings'[b].riderId = r}) <= 1
      ]_vars

\* C2 witness: both bookings are assigned, and a transaction of some cycle
\* met a rider already busy at its re-check.
C2_Witness ==
    /\ \A b \in Bookings : bookings[b].dispatchStatus = "assigned"
    /\ \E c \in Cycles : riderData[c].riderStatus = "busy"

\* C3: once a booking is assigned, no step changes its rider or any of its
\* dispatch fields.
C3_AssignedNeverReassigned ==
    [][ \A b \in Bookings :
            bookings[b].dispatchStatus = "assigned" =>
                /\ bookings'[b].riderId = bookings[b].riderId
                /\ bookings'[b].dispatchStatus = "assigned"
                /\ bookings'[b].status = bookings[b].status
                /\ bookings'[b].matchedAt = bookings[b].matchedAt
                /\ bookings'[b].updatedAt = bookings[b].updatedAt
      ]_vars

\* C3 witness: a cycle that scanned a booking while it was pending re-read
\* it in its transaction after another cycle had assigned it, while a rider
\* of its own snapshot was still available.
C3_Witness ==
    \E c \in Cycles :
        /\ latestBooking[c].dispatchStatus = "assigned"
        /\ ridersSnap[c] # <<>>
        /\ \E r \in Riders : riders[r].riderStatus = "available"
                             /\ IsNumber(riders[r].currentLocation)

\* C10: a cycle that has entered its loop over the scanned bookings ends by
\* answering 200 {scanned, assigned} after having gone through every scanned
\* booking; only a failed scan makes it answer an error.
C10_TransactionErrorAbortsOneOrderOnly ==
    \A c \in Cycles :
        (Done(c) /\ idx[c] >= 1) =>
            /\ dres[c].status = 200
            /\ dres[c].scanned = Len(bookingsSnap[c])
            /\ idx[c] > Len(bookingsSnap[c])

(***************************************************************************)
(* Claims about the webhook.                                               *)
(***************************************************************************)
\* What the provider's signature scheme asks of a test-mode request at time
\* now: a header with a timestamp at most 300 s away and a te signature that
\* is the HMAC, under the webhook secret, of that timestamp and this body.
Authentic(req, now) ==
    /\ req.header.present
    /\ req.header.t # <<>>
    /\ req.header.te # <<>>
    /\ req.header.t[1].finite
    /\ now - req.header.t[1].n <= 300
    /\ req.header.t[1].n - now <= 300
    /\ req.header.te[1] =
           [key |-> "whsec", payload |-> <<req.header.t[1], req.body>>]

\* A verified, parseable payment.paid event with a payment-intent id.
IsPaidEvent(req) ==
    /\ Authentic(req, clock)
    /\ req.body.json
    /\ req.body.type = "payment.paid"
    /\ req.body.paymentIntentId # Null

\* C4: once an order's paymentStatus is paid, no step of any webhook
\* delivery changes it.
C4_PaidIsTerminal ==
    [][ \A o \in Orders :
            orders[o].paymentStatus = "paid" => orders'[o].paymentStatus = "paid"
      ]_vars

\* C5: when the same valid payment.paid event naming an existing order is
\* delivered a second time after its first delivery was answered, no step
\* of the second delivery writes to the store, both deliveries are answered
\* 200 {received: true}, and the order is paid with the paidAt of its last
\* write.
C5_ReplayIsIgnored ==
    [][ \A i, j \in Deliveries :
            ( /\ i < j
              /\ wpc[j] # "idle"
              /\ wreq[j] = wreq[i]
              /\ IsPaidEvent(wreq[j])
              /\ wreq[j].body.orderId \in Orders ) =>
                /\ orders' = orders
                /\ wres[i] = Received
                /\ wpc[j] = "done" => wres[j] = Received
                /\ orders[wreq[j].body.orderId].paymentStatus = "paid"
                /\ orders[wreq[j].body.orderId].paidAt # 0
                /\ orders[wreq[j].body.orderId].paidAt
                       = orders[wreq[j].body.orderId].updatedAt
      ]_vars

\* C5 witness: the first delivery applied the event to a pending order and
\* the identical second delivery has been answered.
C5_Witness ==
    /\ wreq[1] = Signed(PaidO1) /\ wreq[2] = Signed(PaidO1)
    /\ wpc[1] = "done" /\ wpc[2] = "done"
    /\ wres[2] = Received
    /\ orders["o1"].paidAt = 1

\* C6: while all deliveries received are deliveries of one and the same
\* valid payment.paid event, an order's paidAt, once stamped, is not
\* stamped again.
C6_ConcurrentReplayStampsOnce ==
    [][ ( /\ wpc[1] # "idle" /\ wpc[2] # "idle"
          /\ \A h \in Deliveries : wpc[h] # "idle" => wreq[h] = Signed(PaidO1) )
        => \A o \in Orders :
               orders[o].paidAt # 0 => orders'[o].paidAt = orders[o].paidAt
      ]_vars

\* C7: with deliveries handled one after another, once a valid payment.paid
\* event correlated to an order has been answered, the order's
\* paymentStatus is paid, whatever was delivered before or after it.
C7_PaidWinsInAnyOrder ==
    \A h \in Deliveries :
        ( /\ wpc[h] = "done"
          /\ IsPaidEvent(wreq[h])
          /\ orderId[h] \in Orders )
        => orders[orderId[h]].paymentStatus = "paid"

\* C7 witness: failed, then paid, then expired events for the same order
\* have all been answered.
C7_Witness ==
    /\ wreq[1] = Signed(FailedO1) /\ wreq[2] = Signed(PaidO1)
    /\ wreq[3] = Signed(ExpiredO1)
    /\ \A h \in 1..3 : wpc[h] = "done"
    /\ orders["o1"].paymentStatus = "paid"
    /\ orders["o1"].paidAt = 2

\* C8: with no failing store call, a delivery is answered 400 exactly when
\* its signature does not verify or its body is not JSON, and every other
\* answered delivery is answered 200 {received: true}.
C8_Only400OnInvalid ==
    \A h \in Deliveries :
        wpc[h] = "done" =>
            /\ wres[h].status = 400
                   <=> (~Authentic(wreq[h], clock) \/ ~wreq[h].body.json)
            /\ wres[h].status # 400 => wres[h] = Received

\* C8 witness: deliveries answered 400, 200 for an unmatched order, and
\* 200 after an applied transition.
C8_Witness ==
    /\ wpc[1] = "done" /\ wres[1] = InvalidPayload
    /\ wpc[2] = "done" /\ wres[2] = Received /\ wreq[2].body.orderId = "o9"
    /\ wpc[3] = "done" /\ wres[3] = Received
           /\ wreq[3] = Signed(FailedO1) /\ orders["o1"].paymentStatus = "failed"

\* C9: a delivery whose store call fails is still answered: the failure
\* never ends the handler without a response.
C9_StoreFailureIsAnswered ==
    \A h \in Deliveries : wpc[h] # "unhandled"

(***************************************************************************)
(* The counters, the fields and the order correlation.                     *)
(***************************************************************************)

\* C11: the assigned value a cycle returns is the number of bookings its
\* committed transactions assigned, its scanned value is the number of
\* bookings of its scan, and assigned <= scanned.
C11_AssignedCountsCommits ==
    \A c \in Cycles :
        (Done(c) /\ dres[c].status = 200) =>
            /\ dres[c].assigned = Cardinality(committed[c])
            /\ dres[c].scanned = Len(bookingsSnap[c])
            /\ dres[c].assigned <= dres[c].scanned

\* The fields the webhook's merge-writes set, and the fields a dispatch
\* transaction sets on a booking.
WebhookWrites == {"paymentStatus", "status", "paidAt", "paymentProvider",
                  "paymentIntentId", "paymentReference", "updatedAt"}
DispatchWrites == {"riderId", "dispatchStatus", "status", "matchedAt",
                   "updatedAt"}

\* C12 as stated: the two field sets are disjoint, so no webhook step
\* changes the status of an order (a dispatch field) and no dispatch step
\* changes the update timestamp of a booking (a payment field).
C12_DisjointFieldSets ==
    [][ /\ \A o \in Orders : orders'[o].status = orders[o].status
        /\ \A b \in Bookings : bookings'[b].updatedAt = bookings[b].updatedAt
      ]_vars

\* C12 amended: a step that writes an order changes only the webhook's
\* fields of it and writes no booking or rider; a step that writes a booking
\* or a rider changes only the dispatch fields of the booking and riderStatus
\* and updatedAt of the rider, and writes no order.  Both sets hold status
\* and updatedAt, but of documents of different collections.
C12_WritesStayInOwnCollection ==
    [][ /\ orders' # orders =>
              /\ bookings' = bookings /\ riders' = riders
              /\ \A o \in Orders : \A f \in DOMAIN orders[o] \ WebhookWrites :
                     orders'[o][f] = orders[o][f]
        /\ (bookings' # bookings \/ riders' # riders) =>
              /\ orders' = orders
              /\ \A b \in Bookings : \A f \in DOMAIN bookings[b] \ DispatchWrites :
                     bookings'[b][f] = bookings[b][f]
              /\ \A r \in Riders :
                     riders'[r].currentLocation = riders[r].currentLocation
      ]_vars

\* C12 witness: a paid order and an assigned booking, written by a webhook
\* delivery and a dispatch cycle that ran interleaved.
C12_Witness ==
    /\ orders["o1"].status = "paid" /\ orders["o1"].totalAmount = 500
    /\ bookings["b1"].status = "matched"
    /\ bookings["b1"].updatedAt < orders["o1"].updatedAt
    /\ cpc[1] = "txGetBooking"

(***************************************************************************)
(* Order correlation, the signature check and the payment-intent id.       *)
(***************************************************************************)
\* A step of delivery h.
StepOf(h) == wpc'[h] # wpc[h]

\* No order has payment-intent id pi.
NoOrderWithIntent(pi) == \A o \in Orders : orders[o].paymentIntentId # pi

\* C13: a verified event that names an order id that does not exist, or
\* names none and whose payment-intent id no order has (or that has none),
\* changes no order at any step, never reaches a write, and is answered
\* 200 {received: true}.
C13_UnmatchedEventChangesNothing ==
    [][ \A h \in Deliveries :
          LET event == wreq'[h].body
              named == event.orderId # Null /\ event.orderId \notin Orders
              byIntent == /\ wpc[h] = "query"
                          /\ NoOrderWithIntent(event.paymentIntentId)
              nothing == /\ wpc[h] = "idle"
                         /\ Authentic(wreq'[h], clock) /\ event.json
                         /\ event.orderId = Null /\ event.paymentIntentId = Null
          IN  /\ (StepOf(h) /\ wpc[h] # "idle" /\ named) =>
                    /\ orders' = orders
                    /\ wpc'[h] = "done" /\ wres'[h] = Received
              /\ (StepOf(h) /\ wpc[h] = "idle" /\ named) => orders' = orders
              /\ (StepOf(h) /\ (byIntent \/ nothing)) =>
                    /\ orders' = orders
                    /\ wpc'[h] = "done" /\ wres'[h] = Received
      ]_vars

\* C13 witness: an event for order o9, an event for intent pi9 and an event
\* with neither, all answered 200, and no order written.
C13_Witness ==
    /\ wpc[1] = "done" /\ wres[1] = Received /\ wreq[1].body.orderId = "o9"
    /\ wpc[2] = "done" /\ wres[2] = Received
           /\ wreq[2].body.orderId = Null /\ wreq[2].body.paymentIntentId = "pi9"
    /\ wpc[3] = "done" /\ wres[3] = Received
           /\ wreq[3].body.orderId = Null /\ wreq[3].body.paymentIntentId = Null
    /\ clock = 0
    /\ \A o \in Orders : orders[o].updatedAt = 0

\* The body the signature of a request was computed over is its raw body.
SignedOverBody(req) ==
    /\ req.header.present /\ req.header.te # <<>>
    /\ req.header.te[1].payload[2] = req.body

\* C14: a request that is not authentic (no header, no or a non-numeric
\* timestamp, no signature, a stale timestamp, another key, or a signature
\* computed over another body) is answered 400 by the step that receives
\* it, which reads and writes no order; so no order is ever changed by it.
C14_UnverifiedNeverReachesStore ==
    [][ \A h \in Deliveries :
          (wpc[h] = "idle" /\ StepOf(h) /\ ~Authentic(wreq'[h], clock)) =>
              /\ wpc'[h] = "done"
              /\ wres'[h] = InvalidSignature
              /\ orderId'[h] = orderId[h]
              /\ orders' = orders
      ]_vars

\* C14 witness: a tampered body, a non-numeric timestamp and a missing
\* timestamp, each answered 400, after which no order was written.
C14_Witness ==
    /\ wpc[1] = "done" /\ wres[1] = InvalidSignature
           /\ wreq[1].header.present /\ ~SignedOverBody(wreq[1])
    /\ wpc[2] = "done" /\ wres[2] = InvalidSignature
           /\ wreq[2].header.t = <<NotANumber>>
    /\ wpc[3] = "done" /\ wres[3] = InvalidSignature
           /\ wreq[3].header.present /\ wreq[3].header.t = <<>>
    /\ \A o \in Orders : orders[o].updatedAt = 0

\* C15: a request with a numeric timestamp t and the signature of its body
\* under the webhook secret is accepted by the receiving step exactly when
\* |now - t| <= 300.
WellSigned(req) ==
    /\ req.header.present /\ req.header.t # <<>> /\ req.header.te # <<>>
    /\ req.header.t[1].finite
    /\ req.header.te[1] = Hmac(PAYMONGO_WEBHOOK_SECRET,
                               signedPayload(req.header.t[1], req.body))

C15_FreshnessWindowInclusive ==
    [][ \A h \in Deliveries :
          (wpc[h] = "idle" /\ StepOf(h) /\ WellSigned(wreq'[h])) =>
              LET t == wreq'[h].header.t[1].n
                  d == IF clock >= t THEN clock - t ELSE t - clock
              IN  (wres'[h] # InvalidSignature) <=> (d <= 300)
      ]_vars

\* C15 witness: at time 1, a request stamped 299 s ahead and, once the
\* clock reached 1, one stamped 300 s ago were accepted and one stamped
\* 301 s ahead was rejected.
C15_Witness ==
    /\ clock = 1
    /\ wreq[2] = StampedAt(-299, PaidO1) /\ wres[2] = Received
    /\ wreq[3] = StampedAt(302, PaidO1) /\ wres[3] = InvalidSignature
    /\ wreq[1] = StampedAt(300, PaidO1) /\ wres[1] = Received

\* C16: once an order has a payment-intent id, no step (of a payment
\* initiation or of a webhook delivery) changes it.
C16_IntentIdSetOnce ==
    [][ \A o \in Orders :
          orders[o].paymentIntentId # Null =>
              orders'[o].paymentIntentId = orders[o].paymentIntentId
      ]_vars

(***************************************************************************)
(* The choice of the rider and the transaction's re-checks.                *)
(***************************************************************************)
\* The step of cycle c that handles one scanned booking up to the decision
\* to open a transaction for it.
ChoiceStep(c) ==
    /\ cpc[c] = "loop"
    /\ idx[c] <= Len(bookingsSnap[c])
    /\ cpc'[c] # cpc[c] \/ idx'[c] # idx[c]

\* C17: for a scanned booking with a well-formed pickup, the rider the cycle
\* opens a transaction for is, among the riders of the cycle's snapshot at
\* most DISPATCH_RADIUS_KM away, one at minimum distance, and of those the
\* first in scan order; with no rider within the radius the cycle goes on
\* to the next booking without a transaction.
C17_NearestInRadiusFirstInScanOrder ==
    [][ \A c \in Cycles :
          (ChoiceStep(c) /\ IsNumber(bookingsSnap[c][idx[c]].pickup)) =>
              LET pickup == bookingsSnap[c][idx[c]].pickup[1]
                  snap == ridersSnap[c]
                  dist(i) == IF snap[i].currentLocation >= pickup
                             THEN snap[i].currentLocation - pickup
                             ELSE pickup - snap[i].currentLocation
                  Near == {i \in 1..Len(snap) : dist(i) <= DISPATCH_RADIUS_KM}
              IN  IF Near = {}
                  THEN /\ cpc'[c] = "loop" /\ idx'[c] = idx[c] + 1
                       /\ bookings' = bookings /\ riders' = riders
                  ELSE /\ cpc'[c] = "txGetBooking" /\ idx'[c] = idx[c]
                       /\ \E i \in Near :
                            /\ chosen'[c] = snap[i].id
                            /\ \A j \in Near :
                                 \/ dist(i) < dist(j)
                                 \/ dist(i) = dist(j) /\ i <= j
      ]_vars

\* C17 witness: two riders of the snapshot at the same distance from the
\* booking, and the first of the scan chosen.
C17_Witness ==
    /\ cpc[1] = "txGetBooking" /\ idx[1] = 1
    /\ Len(ridersSnap[1]) = 2
    /\ ridersSnap[1][1].currentLocation = ridersSnap[1][2].currentLocation
    /\ chosen[1] = ridersSnap[1][1].id

\* C18: in every state, an assigned booking names a rider that is busy and
\* was made busy by the step that assigned the booking (the two records
\* carry that step's timestamp), and a rider written by dispatch is the
\* rider of a booking assigned by that same step.
C18_AssignmentIsAtomic ==
    /\ \A b \in Bookings :
          bookings[b].dispatchStatus = "assigned" =>
              /\ bookings[b].riderId \in Riders
              /\ riders[bookings[b].riderId].riderStatus = "busy"
              /\ riders[bookings[b].riderId].updatedAt = bookings[b].matchedAt
    /\ \A r \in Riders :
          riders[r].updatedAt > 0 =>
              /\ riders[r].riderStatus = "busy"
              /\ \E b \in Bookings :
                    /\ bookings[b].dispatchStatus = "assigned"
                    /\ bookings[b].riderId = r
                    /\ bookings[b].matchedAt = riders[r].updatedAt

\* C18 witness: a booking assigned and its rider busy while the other
\* cycle's transaction on the same booking failed.
C18_Witness ==
    /\ bookings["b1"].dispatchStatus = "assigned"
    /\ riders[bookings["b1"].riderId].riderStatus = "busy"
    /\ \E c \in Cycles : Done(c) /\ dres[c].status = 500 /\ idx[c] = 1
    /\ \E r \in Riders : riders[r].riderStatus = "available"

\* C19: a step that gives a booking a rider finds the booking approved and
\* pending in the store at that step; and the transaction of a cycle that
\* reads a booking no longer approved writes neither a booking nor a rider
\* and hands the cycle on to its next booking, not to an error response.
C19_RejectedBookingIsSkipped ==
    [][ /\ \A b \in Bookings :
              bookings'[b].riderId # bookings[b].riderId =>
                  /\ bookings[b].adminStatus = "approved"
                  /\ bookings[b].dispatchStatus = "pending"
        /\ \A c \in Cycles :
              ( /\ cpc[c] = "txGetBooking"
                /\ cpc'[c] \notin {"txGetBooking", "done"}
                /\ bookings[bookingRefId(c)].adminStatus # "approved" ) =>
                  /\ bookings' = bookings
                  /\ riders' = riders
                  /\ cpc'[c] = "loop"
                  /\ idx'[c] = idx[c] + 1
      ]_vars

\* C19 witness: booking b1 was rejected after a cycle scanned it; the cycle
\* read it rejected, answered 200, and b1 has no rider and the chosen rider
\* is still available.
C19_Witness ==
    \E c \in Cycles :
        /\ Done(c) /\ dres[c].status = 200 /\ dres[c].scanned > 0
        /\ bookingsSnap[c][1].id = "b1"
        /\ bookings["b1"].adminStatus = "rejected"
        /\ bookings["b1"].riderId = Null
        /\ latestBooking[c].adminStatus = "rejected"
        /\ chosen[c] \in Riders
        /\ riders[chosen[c]].riderStatus = "available"

\* C20: after its scan a cycle keeps its rider snapshot and goes through
\* the scanned bookings once, in order; a transaction that reads its chosen
\* rider no longer available writes neither a booking nor a rider, counts
\* nothing, and hands the cycle on to its next booking, not to an error
\* response.
C20_StaleChoiceIsSkippedOnce ==
    [][ \A c \in Cycles :
          /\ cpc[c] \notin {"idle", "scanRiders"} =>
                /\ ridersSnap'[c] = ridersSnap[c]
                /\ idx'[c] \in {idx[c], idx[c] + 1}
          /\ ( /\ cpc[c] = "txGetRider"
               /\ cpc'[c] \notin {"txGetRider", "done"}
               /\ riders[chosen[c]].riderStatus # "available" ) =>
                /\ bookings' = bookings
                /\ riders' = riders
                /\ assigned'[c] = assigned[c]
                /\ cpc'[c] = "loop"
                /\ idx'[c] = idx[c] + 1
      ]_vars

\* C20 witness: the cycle assigned b1 to r1, then chose r1 again for b2,
\* read it busy and answered 200 with one assignment; b2 is still pending
\* with no rider although r2 is available within its radius.
C20_Witness ==
    /\ Done(1) /\ dres[1] = [status |-> 200, scanned |-> 2, assigned |-> 1]
    /\ bookings["b1"].riderId = "r1"
    /\ chosen[1] = "r1" /\ riderData[1].riderStatus = "busy"
    /\ bookings["b2"].adminStatus = "approved"
    /\ bookings["b2"].dispatchStatus = "pending"
    /\ bookings["b2"].riderId = Null /\ bookings["b2"].updatedAt = 0
    /\ riders["r2"].riderStatus = "available" /\ InRadiusOf("b2", "r2")

====
